---- MODULE Spec2Model ----
(***************************************************************************)
(* Model of yuribz/grades-dsc: gradebook.py (Gradebook) and                *)
(* third_parties.py (Slido, Zybook, Gradescope).                           *)
(*                                                                         *)
(* Conventions.  A spreadsheet cell, or any value that pandas may hold as  *)
(* NaN, is a sequence: <<>> is NaN / absent, <<v>> is the value v.  Text   *)
(* that the code parses (spreadsheet headers, rubric sections and          *)
(* activities) is a sequence of one-character strings.  A DataFrame is the *)
(* set of its rows, each row a record of its columns.                      *)
(***************************************************************************)
EXTENDS Integers, Sequences, FiniteSets, TLC

VARIABLES
    pc,             \* position of the run inside create_gradebook / enter_grades
    config,         \* kwargs['config'] flattened: sequence of <<section, activity>>
                    \* (Slido: <<min_poll>>, a binary fraction)
    df,             \* the sheet read by Zybook.convert_raw or Slido.convert_raw:
                    \* [columns, rows]
    students,       \* self.students: the roster, rows [email, name, id]
    staff,          \* self.staff
    email_records,  \* self.email_records: typed email -> canonical email
    gradebook,      \* self.gradebook
    total_score,    \* self.total_score (Zybook)
    err,            \* the exception that ended the run, "" when none
    payload,        \* the grades handed to submissions_bulk_update
    progress,       \* the Progress object returned by the bulk update
    printed,        \* what the run has printed
    mismatches,     \* the value returned by enter_grades
    gsheet,         \* the csv of self.file_name read by Gradescope.convert_raw
    lateness,       \* self.lateness: the csv of self.lateness_file
    lateness_policy, \* self.lateness_policy
    penalty_policy, \* kwargs['penalty_policy']: sequence of [category, factor]
    other_sections, \* self.other_sections: sequence of [name, rows]
    students_update, \* self.students_update (Gradescope.enter_grades)
    canvas,         \* the Canvas course: the assignments and their posted grades
    batch,          \* how many Gradescope objects have been run in turn
    due_time        \* self.due_time

\* the state of the Zybook runs
zyVars == <<config, df, total_score, progress>>

\* the state of the Gradescope runs
gsVars == <<gsheet, lateness, lateness_policy, penalty_policy, other_sections,
           students_update, canvas, batch, due_time>>

vars == <<pc, config, df, students, staff, email_records, gradebook,
          total_score, err, payload, progress, printed, mismatches, gsheet,
          lateness, lateness_policy, penalty_policy, other_sections,
          students_update, canvas, batch, due_time>>

----------------------------------------------------------------------------
(* Bounds of the model *)

\* most graded-looking columns in one sheet
MaxCols == 2
\* most rows in one sheet of the roster-merge runs
MaxRows == 2
\* cell values of the scoring runs are the multiples of ValueStep up to 100
ValueStep == 10
\* largest cell value of the bucket runs
MaxValue == 100

----------------------------------------------------------------------------
(* Generic helpers *)

NaN == <<>>

IsNaN(c) == c = <<>>

Val(c) == c[1]

\* Series.fillna(v)
FillNa(c, v) == IF IsNaN(c) THEN <<v>> ELSE c

RECURSIVE SumOver(_, _)
\* sum(f(x) for x in S)
SumOver(S, f) ==
    IF S = {} THEN 0
    ELSE LET x == CHOOSE y \in S : TRUE
         IN  f[x] + SumOver(S \ {x}, [y \in S \ {x} |-> f[y]])

----------------------------------------------------------------------------
(* Text: headers, rubric sections and activities as character sequences *)

Digits == {"0", "1", "2", "3", "4", "5", "6", "7", "8", "9"}

\* int() of one decimal digit
DigitVal(c) ==
    CASE c = "0" -> 0 [] c = "1" -> 1 [] c = "2" -> 2 [] c = "3" -> 3
      [] c = "4" -> 4 [] c = "5" -> 5 [] c = "6" -> 6 [] c = "7" -> 7
      [] c = "8" -> 8 [] c = "9" -> 9

RECURSIVE ParseInt(_)
\* int(score) of a string of decimal digits
ParseInt(ds) ==
    IF ds = <<>> THEN 0
    ELSE 10 * ParseInt(SubSeq(ds, 1, Len(ds) - 1)) + DigitVal(ds[Len(ds)])

Sec_1_1 == <<"1", ".", "1">>
Sec_1_2 == <<"1", ".", "2">>
Sec_11_1 == <<"1", "1", ".", "1">>
Act_P == <<"P">>
Act_C == <<"C">>

\* "1.1 - P (5)"
H_1_1_P_5 == <<"1", ".", "1", " ", "-", " ", "P", " ", "(", "5", ")">>
\* "1.1 - C (10)"
H_1_1_C_10 == <<"1", ".", "1", " ", "-", " ", "C", " ", "(", "1", "0", ")">>
\* "1.2 - P (5)"
H_1_2_P_5 == <<"1", ".", "2", " ", "-", " ", "P", " ", "(", "5", ")">>
\* "11.1 - P (5)": section 1 of chapter 11
H_11_1_P_5 == <<"1", "1", ".", "1", " ", "-", " ", "P", " ", "(", "5", ")">>
\* "Notes": a column that is no graded activity
H_Notes == <<"N", "o", "t", "e", "s">>
\* "1.1 - P (100)"
H_1_1_P_100 == <<"1", ".", "1", " ", "-", " ", "P", " ", "(", "1", "0", "0", ")">>

HeaderPool == {H_1_1_P_5, H_1_1_C_10, H_1_2_P_5, H_11_1_P_5, H_Notes}

\* {'1.1': ['P']}
Cfg_A == << <<Sec_1_1, Act_P>> >>
\* {'1.1': ['P', 'C'], '1.2': ['P']}
Cfg_B == << <<Sec_1_1, Act_P>>, <<Sec_1_1, Act_C>>, <<Sec_1_2, Act_P>> >>
\* {'1.1': ['P'], '11.1': ['P']}
Cfg_C == << <<Sec_1_1, Act_P>>, <<Sec_11_1, Act_P>> >>

ConfigPool == {Cfg_A, Cfg_B, Cfg_C}

----------------------------------------------------------------------------
(* Zybook.convert_raw: the column pattern *)

\* the literal head of one alternative of pat: '{sec} - {act} \('
AltHead(alt) == alt[1] \o <<" ", "-", " ">> \o alt[2] \o <<" ", "(">>

\* the regex engine matching the head p at position i of s; an unescaped
\* '.' of an interpolated section or activity matches any character
MatchAt(s, i, p) ==
    /\ i + Len(p) - 1 <= Len(s)
    /\ \A k \in 1..Len(p) : p[k] = "." \/ p[k] = s[i + k - 1]

RECURSIVE DigitRunEnd(_, _)
\* [0-9]+ is greedy: the first position after the run of digits from j
DigitRunEnd(s, j) ==
    IF j <= Len(s) /\ s[j] \in Digits THEN DigitRunEnd(s, j + 1) ELSE j

\* one alternative '((?:{sec} - {act}) \(([0-9]+)\))' tried at position i:
\* the two captured groups, or NaN
AltMatch(s, i, alt) ==
    LET p == AltHead(alt)
        j == i + Len(p)
        k == DigitRunEnd(s, j)
    IN  IF MatchAt(s, i, p) /\ k > j /\ k <= Len(s) /\ s[k] = ")"
        THEN <<[text |-> SubSeq(s, i, k), weight |-> SubSeq(s, j, k - 1)]>>
        ELSE NaN

RECURSIVE FindFirst(_, _, _, _)
\* re.findall(pat, col)[0] with the empty groups filtered out: the leftmost
\* match, alternatives tried in the order of the config; NaN when
\* re.findall returns []
FindFirst(s, alts, i, a) ==
    IF i > Len(s) THEN NaN
    ELSE IF a > Len(alts) THEN FindFirst(s, alts, i + 1, 1)
    ELSE IF AltMatch(s, i, alts[a]) # NaN THEN AltMatch(s, i, alts[a])
    ELSE FindFirst(s, alts, i, a + 1)

\* the capture of one header
Capture(col, cfg) == FindFirst(col, cfg, 1, 1)

\* the headers that contribute an entry to col_info
ColInfoCols(columns, cfg) == {col \in columns : Capture(col, cfg) # NaN}

\* the keys of the dict comprehension: the captured texts
ColInfoKeys(columns, cfg) ==
    {Val(Capture(col, cfg)).text : col \in ColInfoCols(columns, cfg)}

\* cred_str of a key (the digits are part of the captured text)
CredOf(key, columns, cfg) ==
    LET col == CHOOSE c \in ColInfoCols(columns, cfg) :
                   Val(Capture(c, cfg)).text = key
    IN  ParseInt(Val(Capture(col, cfg)).weight)

\* sum(int(score) for _, score in col_info)
TotalPossible(columns, cfg) ==
    SumOver(ColInfoCols(columns, cfg),
            [col \in ColInfoCols(columns, cfg) |->
                 ParseInt(Val(Capture(col, cfg)).weight)])

\* numpy's round of n / d (n >= 0, d > 0): half to even
RoundHalfEven(n, d) ==
    LET q == n \div d
        r == n % d
    IN  IF 2 * r < d THEN q
        ELSE IF 2 * r > d THEN q + 1
        ELSE IF q % 2 = 0 THEN q ELSE q + 1

\* faulty variant: the contribution truncated instead of rounded
ContributionTruncated(cell, cred) == (Val(FillNa(cell, 0)) * cred) \div 100

\* (df[col].fillna(0) * int(cred_str) / 100).round().astype(int), one cell
Contribution(cell, cred) == RoundHalfEven(Val(FillNa(cell, 0)) * cred, 100)

----------------------------------------------------------------------------
(* Zybook: convert_raw and compute_grade *)

\* the DataFrame built by convert_raw: one scored column per key, plus
\* typed_email
ZybookFrame(sheet, cfg) ==
    LET keys == ColInfoKeys(sheet.columns, cfg)
    IN  {[typed_email |-> r.email,
          cols |-> [key \in keys |->
                       Contribution(r.vals[key],
                                    CredOf(key, sheet.columns, cfg))]]
         : r \in sheet.rows}

\* total_score / self.total_score * 100 as a fraction; 0 / 0 is NaN
Percentage(score, total) ==
    IF total = 0 THEN NaN ELSE <<[num |-> score * 100, den |-> total]>>

\* score >= th on a float that may be NaN
AtLeast(pct, th) == pct # NaN /\ Val(pct).num >= th * Val(pct).den

\* faulty variant: the top bucket needs more than 93
BucketStrict(pct) ==
    IF pct # NaN /\ Val(pct).num > 93 * Val(pct).den THEN 5
    ELSE IF AtLeast(pct, 80) THEN 4
    ELSE IF AtLeast(pct, 60) THEN 3
    ELSE IF AtLeast(pct, 40) THEN 2
    ELSE IF AtLeast(pct, 20) THEN 1
    ELSE 0

\* the lambda of compute_grade
Bucket(pct) ==
    IF AtLeast(pct, 93) THEN 5
    ELSE IF AtLeast(pct, 80) THEN 4
    ELSE IF AtLeast(pct, 60) THEN 3
    ELSE IF AtLeast(pct, 40) THEN 2
    ELSE IF AtLeast(pct, 20) THEN 1
    ELSE 0

\* .drop(columns=['typed_email']).sum(axis=1), one row
RowTotal(r) == SumOver(DOMAIN r.cols, r.cols)

\* Zybook.convert_raw: df[col] raises KeyError when a captured text is not
\* a header of the sheet; self.total_score is assigned before that
ZybookConvertRaw ==
    /\ pc = "convert_raw"
    /\ total_score' = TotalPossible(df.columns, config)
    /\ IF ColInfoKeys(df.columns, config) \subseteq df.columns
       THEN /\ gradebook' = ZybookFrame(df, config)
            /\ pc' = "compute_grade"
            /\ err' = err
       ELSE /\ err' = "KeyError"
            /\ pc' = "raised"
            /\ gradebook' = gradebook
    /\ UNCHANGED <<config, df, students, staff, email_records, payload,
                   progress, printed, mismatches>>
    /\ UNCHANGED gsVars

\* Zybook.compute_grade
ZybookComputeGrade ==
    /\ pc = "compute_grade"
    /\ gradebook' =
          {[typed_email |-> r.typed_email,
            cols |-> r.cols,
            total_score |-> RowTotal(r),
            percentage |-> Percentage(RowTotal(r), total_score),
            grade |-> Bucket(Percentage(RowTotal(r), total_score))]
           : r \in gradebook}
    /\ pc' = "merge"
    /\ UNCHANGED <<config, df, students, staff, email_records, total_score,
                   err, payload, progress, printed, mismatches>>
    /\ UNCHANGED gsVars

----------------------------------------------------------------------------
(* Gradebook.create_gradebook: canonical email and the join with the roster *)

\* lambda s: self.email_records[s] if s in self.email_records else s
Canonical(records, s) == IF s \in DOMAIN records THEN records[s] ELSE s

\* one row of students.merge(gradebook, on='email', how='outer') with the
\* assignment column filled: s and g are cells holding the roster row and
\* the score row that share the email e
MergedRow(e, s, g) ==
    [email |-> e,
     name |-> IF s = NaN THEN NaN ELSE <<Val(s).name>>,
     id |-> IF s = NaN THEN NaN ELSE Val(s).id,
     typed_email |-> IF g = NaN THEN NaN ELSE <<Val(g).typed_email>>,
     total_score |-> IF g = NaN THEN NaN ELSE <<Val(g).total_score>>,
     percentage |-> IF g = NaN THEN NaN ELSE Val(g).percentage,
     grade |-> IF g = NaN THEN 0 ELSE Val(g).grade]

\* faulty variant: how='left', the score rows without a roster row are lost
LeftMerge(roster, scores, records) ==
    LET emailOf(g) == Canonical(records, g.typed_email)
    IN  {MergedRow(s.email, <<s>>, <<g>>) :
             <<s, g>> \in {p \in roster \X scores : p[1].email = emailOf(p[2])}}
        \cup {MergedRow(s.email, <<s>>, NaN) :
                  s \in {t \in roster : \A g \in scores : emailOf(g) # t.email}}

\* students.merge(gradebook, on='email', how='outer') followed by
\* fillna(0) of the assignment column
OuterMerge(roster, scores, records) ==
    LET emailOf(g) == Canonical(records, g.typed_email)
    IN  {MergedRow(s.email, <<s>>, <<g>>) :
             <<s, g>> \in {p \in roster \X scores : p[1].email = emailOf(p[2])}}
        \cup {MergedRow(s.email, <<s>>, NaN) :
                  s \in {t \in roster : \A g \in scores : emailOf(g) # t.email}}
        \cup {MergedRow(emailOf(g), NaN, <<g>>) :
                  g \in {h \in scores : \A s \in roster : s.email # emailOf(h)}}

\* Gradebook.create_gradebook after convert_raw and compute_grade
CreateGradebook ==
    /\ pc = "merge"
    /\ gradebook' = OuterMerge(students, gradebook, email_records)
    /\ pc' = "enter_grades"
    /\ UNCHANGED <<config, df, students, staff, email_records, total_score,
                   err, payload, progress, printed, mismatches>>
    /\ UNCHANGED gsVars

----------------------------------------------------------------------------
(* Gradebook.enter_grades and Gradebook.track_progress *)

\* self.gradebook[~index.isin(self.staff) & ~id.isna()]
StudentsUpdate(book, stf) == {r \in book : r.email \notin stf /\ r.id # NaN}

\* self.gradebook[self.gradebook['id'].isna()]
Mismatches(book) == {r \in book : r.id = NaN}

\* .set_index(id).to_dict('index') needs a unique index
UniqueIds(rows) == \A r1, r2 \in rows : r1.id = r2.id => r1 = r2

\* grade_updates: id -> posted_grade
GradeUpdates(rows) ==
    [i \in {Val(r.id) : r \in rows} |->
        (CHOOSE r \in rows : Val(r.id) = i).grade]

\* what the Progress object of a bulk update can hold when it is returned
ProgressStates ==
    {[completion |-> 0, workflow_state |-> "queued"],
     [completion |-> 50, workflow_state |-> "running"],
     [completion |-> 100, workflow_state |-> "completed"],
     [completion |-> 50, workflow_state |-> "failed"]}

\* the grades of an assignment once a bulk update has been applied
BulkUpdate(grades, updates) ==
    [i \in DOMAIN grades \cup DOMAIN updates |->
        IF i \in DOMAIN updates THEN <<updates[i]>> ELSE grades[i]]

\* Gradebook.enter_grades up to the bulk update: the assignment is looked
\* up and created when it is not there (due_at is None without a
\* due_time), then the grades are handed over; the grades are on Canvas
\* at once when the job is returned completed
EnterGrades ==
    /\ pc = "enter_grades"
    /\ printed' = printed \cup {"Processing"}
    /\ IF UniqueIds(StudentsUpdate(gradebook, staff))
       THEN /\ payload' = <<GradeUpdates(StudentsUpdate(gradebook, staff))>>
            /\ progress' \in ProgressStates
            /\ canvas' =
                  [canvas EXCEPT
                      !.main_exists = TRUE,
                      !.main = IF progress'.workflow_state = "completed"
                               THEN BulkUpdate(@, Val(payload'))
                               ELSE @]
            /\ pc' = "track_progress"
            /\ err' = err
       ELSE /\ err' = "ValueError"
            /\ pc' = "raised"
            /\ canvas' = [canvas EXCEPT !.main_exists = TRUE]
            /\ UNCHANGED <<payload, progress>>
    /\ UNCHANGED <<config, df, students, staff, email_records, gradebook,
                   total_score, mismatches>>
    /\ UNCHANGED <<gsheet, lateness, lateness_policy, penalty_policy,
                   other_sections, students_update, batch, due_time>>

\* Canvas working a job that was returned queued or running: the grades
\* handed over are applied.  The Progress object of the run is not
\* refreshed by it (track_progress never calls progress.query())
BulkUpdateRuns ==
    /\ pc = "track_progress"
    /\ progress.workflow_state \in {"queued", "running"}
    /\ canvas.main # BulkUpdate(canvas.main, Val(payload))
    /\ canvas' = [canvas EXCEPT !.main = BulkUpdate(@, Val(payload))]
    /\ UNCHANGED <<pc, config, df, students, staff, email_records, gradebook,
                   total_score, err, payload, progress, printed, mismatches>>
    /\ UNCHANGED <<gsheet, lateness, lateness_policy, penalty_policy,
                   other_sections, students_update, batch, due_time>>

\* one test of the loop of track_progress on the attributes the Progress
\* object was returned with; when the loop ends enter_grades goes on to
\* return the mismatches
TrackProgress ==
    /\ pc = "track_progress"
    /\ IF progress.completion = 100
       THEN /\ printed' = printed \cup {"Progress Completed", "Email Mismatches:"}
            /\ mismatches' = <<Mismatches(gradebook)>>
            /\ pc' = "returned"
       ELSE IF progress.workflow_state = "failed"
       THEN /\ printed' = printed \cup {"Progress Failed, Restart Workflow"}
            /\ UNCHANGED <<pc, mismatches>>
       ELSE UNCHANGED <<pc, printed, mismatches>>
    /\ UNCHANGED <<config, df, students, staff, email_records, gradebook,
                   total_score, err, payload, progress>>
    /\ UNCHANGED gsVars

----------------------------------------------------------------------------
(* Inputs *)

\* self.staff
Staff == {"s"}

\* self.email_records
EmailRecords == [e \in {"b_typo"} |-> "b"]

\* a roster row
Student(e, i) == [email |-> e, name |-> e, id |-> i]

\* the rosters: "a" and "n" may lack a Canvas id
Rosters ==
    {{Student("a", ia), Student("b", <<2>>), Student("n", in), Student("s", <<3>>)}
     : <<ia, in>> \in {NaN, <<1>>} \X {NaN, <<4>>}}

\* emails typed into a sheet
TypedEmails == {"a", "b", "b_typo", "n", "s", "x"}

Values == {v \in 0..100 : v % ValueStep = 0}

Cells(vals) == {NaN} \cup {<<v>> : v \in vals}

\* the sheets with the given columns and typed emails
Sheets(columns, emails, vals) ==
    {[columns |-> columns, rows |-> {[email |-> e, vals |-> f[e]] : e \in emails}]
     : f \in [emails -> [columns -> Cells(vals)]]}

InitRun ==
    /\ pc = "convert_raw"
    /\ staff = Staff
    /\ email_records = EmailRecords
    /\ gradebook = {}
    /\ total_score = 0
    /\ err = ""
    /\ payload = NaN
    /\ progress = NaN
    /\ printed = {}
    /\ mismatches = NaN
    /\ gsheet = {}
    /\ lateness = [columns |-> <<>>, rows |-> {}]
    /\ lateness_policy = NaN
    /\ penalty_policy = NaN
    /\ other_sections = <<>>
    /\ students_update = {}
    /\ canvas = [main_exists |-> FALSE, main |-> <<>>,
                 slip_exists |-> FALSE, slip |-> <<>>]
    /\ batch = 1
    /\ due_time = NaN

\* scoring runs: any rubric, up to MaxCols headers, one student
InitScore ==
    /\ config \in ConfigPool
    /\ \E columns \in {S \in SUBSET HeaderPool : Cardinality(S) <= MaxCols} :
           df \in Sheets(columns, {"a"}, Values)
    /\ students \in {R \in Rosters : \A s \in R : s.id # NaN \/ s.email = "n"}

\* roster-merge runs: one graded column, up to MaxRows typed emails
InitMerge ==
    /\ config = Cfg_A
    /\ \E emails \in {S \in SUBSET TypedEmails :
                          Cardinality(S) >= 1 /\ Cardinality(S) <= MaxRows} :
           df \in Sheets({H_1_1_P_5}, emails, {100})
    /\ students \in Rosters

\* bucket runs: one column of weight 100, two students
InitBucket ==
    /\ config = Cfg_A
    /\ df \in Sheets({H_1_1_P_100}, {"a", "b"}, 0..MaxValue)
    /\ students \in {R \in Rosters : \A s \in R : s.id # NaN}

Init == InitRun /\ (InitScore \/ InitMerge)

Next ==
    \/ ZybookConvertRaw
    \/ ZybookComputeGrade
    \/ CreateGradebook
    \/ EnterGrades
    \/ BulkUpdateRuns
    \/ TrackProgress

Spec == Init /\ [][Next]_vars

InitOfBucket == InitRun /\ InitBucket

SpecBucket == InitOfBucket /\ [][Next]_vars

----------------------------------------------------------------------------
(* Slido: convert_raw, compute_grade and the join with the roster *)

\* "User ID"
H_UserID == <<"U", "s", "e", "r", " ", "I", "D">>
\* "User Name"
H_UserName == <<"U", "s", "e", "r", " ", "N", "a", "m", "e">>
\* "User company"
H_UserCompany == <<"U", "s", "e", "r", " ", "c", "o", "m", "p", "a", "n", "y">>
\* "Total Correct Answers"
H_TotalCorrect ==
    <<"T", "o", "t", "a", "l", " ", "C", "o", "r", "r", "e", "c", "t", " ",
      "A", "n", "s", "w", "e", "r", "s">>
\* the polls of a lecture
H_Q1 == <<"Q", "1">>
H_Q2 == <<"Q", "2">>
H_Q3 == <<"Q", "3">>
H_Q4 == <<"Q", "4">>

\* .drop(columns=[...])
SlidoDropped == {H_UserID, H_UserName, H_UserCompany, H_TotalCorrect}

\* pd.read_excel(..., header=0, skiprows=[1]).drop(...).rename(...): the
\* line after the header is skipped, 'User Email' becomes typed_email
SlidoFrame(sheet) ==
    {[typed_email |-> r.email,
      cols |-> [q \in sheet.columns \ SlidoDropped |-> r.vals[q]]]
     : r \in {x \in sheet.rows : x.line # 1}}

\* Slido.convert_raw: drop raises KeyError when one of its columns is not
\* in the sheet
SlidoConvertRaw ==
    /\ pc = "slido_convert_raw"
    /\ IF SlidoDropped \subseteq df.columns
       THEN /\ gradebook' = SlidoFrame(df)
            /\ pc' = "slido_compute_grade"
            /\ err' = err
       ELSE /\ err' = "KeyError"
            /\ pc' = "raised"
            /\ gradebook' = gradebook
    /\ UNCHANGED <<config, df, students, staff, email_records, total_score,
                   payload, progress, printed, mismatches>>
    /\ UNCHANGED gsVars

\* kwargs['min_poll']: a float num / den between 0 and 1 whose den is a
\* power of two, so that the float holds it exactly
MinPoll(kwargs) == kwargs[1]

\* .isna().mean(axis=1) <= (1 - min_poll) of one row; the mean over no
\* column is NaN and compares False.  1 - min_poll is exact for a binary
\* fraction, and the rounded quotient k / n compares with it as k / n does
EnoughPolls(r, min_poll) ==
    LET n == Cardinality(DOMAIN r.cols)
        k == Cardinality({q \in DOMAIN r.cols : r.cols[q] = NaN})
    IN  n > 0 /\ k * min_poll.den <= (min_poll.den - min_poll.num) * n

\* Slido.compute_grade
SlidoComputeGrade ==
    /\ pc = "slido_compute_grade"
    /\ gradebook' =
          {[typed_email |-> r.typed_email,
            cols |-> r.cols,
            grade |-> IF EnoughPolls(r, MinPoll(config)) THEN 1 ELSE 0]
           : r \in gradebook}
    /\ pc' = "slido_merge"
    /\ UNCHANGED <<config, df, students, staff, email_records, total_score,
                   err, payload, progress, printed, mismatches>>
    /\ UNCHANGED gsVars

\* one row of students.merge(gradebook, on='email', how='outer') with the
\* assignment column filled
SlidoMergedRow(e, s, g) ==
    [email |-> e,
     name |-> IF s = NaN THEN NaN ELSE <<Val(s).name>>,
     id |-> IF s = NaN THEN NaN ELSE Val(s).id,
     typed_email |-> IF g = NaN THEN NaN ELSE <<Val(g).typed_email>>,
     cols |-> IF g = NaN THEN NaN ELSE <<Val(g).cols>>,
     grade |-> IF g = NaN THEN 0 ELSE Val(g).grade]

\* students.merge(gradebook, on='email', how='outer') followed by
\* fillna(0) of the assignment column
SlidoOuterMerge(roster, scores, records) ==
    LET emailOf(g) == Canonical(records, g.typed_email)
    IN  {SlidoMergedRow(s.email, <<s>>, <<g>>) :
             <<s, g>> \in {p \in roster \X scores : p[1].email = emailOf(p[2])}}
        \cup {SlidoMergedRow(s.email, <<s>>, NaN) :
                  s \in {t \in roster : \A g \in scores : emailOf(g) # t.email}}
        \cup {SlidoMergedRow(emailOf(g), NaN, <<g>>) :
                  g \in {h \in scores : \A s \in roster : s.email # emailOf(h)}}

\* Gradebook.create_gradebook after Slido's convert_raw and compute_grade
SlidoCreateGradebook ==
    /\ pc = "slido_merge"
    /\ gradebook' = SlidoOuterMerge(students, gradebook, email_records)
    /\ pc' = "enter_grades"
    /\ UNCHANGED <<config, df, students, staff, email_records, total_score,
                   err, payload, progress, printed, mismatches>>
    /\ UNCHANGED gsVars

\* the polls asked in a lecture
PollSets == {{}, {H_Q1, H_Q2, H_Q3, H_Q4}}

\* the exports with the given columns: the line after the header, then one
\* line for each typed email; cell is held by the columns that drop removes
SlidoSheets(polls, emails, cell) ==
    {[columns |-> polls \cup dropped,
      rows |-> {[line |-> 1, email |-> "",
                 vals |-> [q \in polls \cup dropped |-> cell]]}
               \cup {[line |-> ln[e], email |-> e,
                      vals |-> [q \in polls \cup dropped |->
                                   IF q \in polls THEN f[e][q] ELSE cell]]
                     : e \in emails}]
     : <<f, ln, dropped>> \in
           [emails -> [polls -> {NaN, <<1>>}]]
           \X {l \in [emails -> 2..(1 + Cardinality(emails))] :
                  \A e1, e2 \in emails : l[e1] = l[e2] => e1 = e2}
           \X {SlidoDropped, SlidoDropped \ {H_TotalCorrect}}}

\* min_poll: 0.75 (the default), 0.5 and 0.875
MinPolls == {[num |-> 3, den |-> 4], [num |-> 1, den |-> 2], [num |-> 7, den |-> 8]}

\* one lecture: up to MaxRows typed emails
InitSlido ==
    /\ pc = "slido_convert_raw"
    /\ config \in {<<m>> : m \in MinPolls}
    /\ \E polls \in PollSets,
          emails \in {S \in SUBSET {"a", "b_typo", "x"} :
                          Cardinality(S) >= 1 /\ Cardinality(S) <= MaxRows} :
           df \in SlidoSheets(polls, emails, <<0>>)
    /\ students \in Rosters
    /\ staff = Staff
    /\ email_records = EmailRecords
    /\ gradebook = {}
    /\ total_score = 0
    /\ err = ""
    /\ payload = NaN
    /\ progress = NaN
    /\ printed = {}
    /\ mismatches = NaN
    /\ gsheet = {}
    /\ lateness = [columns |-> <<>>, rows |-> {}]
    /\ lateness_policy = NaN
    /\ penalty_policy = NaN
    /\ other_sections = <<>>
    /\ students_update = {}
    /\ canvas = [main_exists |-> FALSE, main |-> <<>>,
                 slip_exists |-> FALSE, slip |-> <<>>]
    /\ batch = 1
    /\ due_time = NaN

NextSlido ==
    \/ SlidoConvertRaw
    \/ SlidoComputeGrade
    \/ SlidoCreateGradebook
    \/ EnterGrades
    \/ BulkUpdateRuns
    \/ TrackProgress

SpecSlido == InitSlido /\ [][NextSlido]_vars

----------------------------------------------------------------------------
(* Gradescope.convert_raw: lateness.  Scores and factors of the Gradescope *)
(* runs are exact: a late_factor is held in hundredths (1.0 is 100) and    *)
(* the assignment column in hundredths of a point.                         *)

\* "No Lateness"
Col_NoLateness == <<"N", "o", " ", "L", "a", "t", "e", "n", "e", "s", "s">>
\* "Slip Day Used"
Col_SlipDayUsed == <<"S", "l", "i", "p", " ", "D", "a", "y", " ", "U", "s", "e", "d">>
\* "1 Day Late"
Col_1DayLate == <<"1", " ", "D", "a", "y", " ", "L", "a", "t", "e">>

\* 'no lateness'
Cat_NoLateness == <<"n", "o", " ", "l", "a", "t", "e", "n", "e", "s", "s">>
\* '1 day late'
Cat_1DayLate == <<"1", " ", "d", "a", "y", " ", "l", "a", "t", "e">>

\* the upper-case letters and, at the same places, their lower-case forms
UpperCase ==
    <<"A", "B", "C", "D", "E", "F", "G", "H", "I", "J", "K", "L", "M",
      "N", "O", "P", "Q", "R", "S", "T", "U", "V", "W", "X", "Y", "Z">>
LowerCase ==
    <<"a", "b", "c", "d", "e", "f", "g", "h", "i", "j", "k", "l", "m",
      "n", "o", "p", "q", "r", "s", "t", "u", "v", "w", "x", "y", "z">>

\* str.lower() of one character
LowerChar(c) ==
    IF \E i \in DOMAIN UpperCase : UpperCase[i] = c
    THEN LowerCase[CHOOSE i \in DOMAIN UpperCase : UpperCase[i] = c]
    ELSE c

\* str.lower()
Lower(str) == [i \in 1..Len(str) |-> LowerChar(str[i])]

\* 'penalty'
Str_penalty == <<"p", "e", "n", "a", "l", "t", "y">>
\* 'slip_day'
Str_slip_day == <<"s", "l", "i", "p", "_", "d", "a", "y">>

\* the assert of Gradescope.__init__ on lateness_policy (NaN is None)
PolicyAccepted(policy) ==
    \/ policy = NaN
    \/ Lower(Val(policy)) \in {Str_penalty, Str_slip_day}

\* sub in str
Contains(sub, str) ==
    \E i \in 1..(Len(str) - Len(sub) + 1) : SubSeq(str, i, i + Len(sub) - 1) = sub

\* str.isnumeric() of a submission id
IsNumeric(str) == str # <<>> /\ \A i \in 1..Len(str) : str[i] \in Digits

\* pd.read_csv on the column 'Assignment Submission ID' (ids written with
\* digits or with letters): the column holds strings when the sheet has no
\* row or some id is not a number, and integers (int64) when every id is
\* a number
ReadAsText(rows) == rows = {} \/ \E l \in rows : ~IsNumeric(l.sid)

\* self.lateness[self.lateness['Assignment Submission ID'].str.isnumeric()]
\* on a column of strings
NumericRows(rows) == {l \in rows : IsNumeric(l.sid)}

\* any(p in col.lower() for p in policy)
IsLateCol(col, policy) ==
    \E k \in 1..Len(policy) : Contains(policy[k].category, Lower(col))

\* late_cols: the lateness columns named by the policy, in sheet order
LateCols(columns, policy) ==
    SelectSeq(columns, LAMBDA col : IsLateCol(col, policy))

\* DataFrame.idxmax(axis=1) of one row: the first column holding the maximum
IdxMax(cols, ind) ==
    cols[CHOOSE i \in 1..Len(cols) :
             /\ \A j \in 1..Len(cols) : ind[cols[j]] <= ind[cols[i]]
             /\ \A j \in 1..(i - 1) : ind[cols[j]] < ind[cols[i]]]

\* late_category(s, policy): the factor of the first category found in
\* s.lower(), None when there is none
LateCategory(col, policy) ==
    LET found == {k \in 1..Len(policy) : Contains(policy[k].category, Lower(col))}
    IN  IF found = {} THEN NaN
        ELSE <<policy[CHOOSE k \in found : \A j \in found : k <= j].factor>>

\* self.lateness['late_factor'] of one row
LateFactor(l, columns, policy) ==
    Val(FillNa(LateCategory(IdxMax(LateCols(columns, policy), l.ind), policy), 100))

\* self.lateness['slip_day'] of one row
SlipDay(l) ==
    IF IdxMax(<<Col_NoLateness, Col_SlipDayUsed>>, l.ind) = Col_NoLateness
    THEN 0 ELSE 1

\* self.gradebook after "find columns" and "process email errors"
PrimaryFrame(sheet, records) ==
    {[email |-> Canonical(records, p.Email),
      assignment_score |-> Val(FillNa(p.score, 0)),
      grade |-> 100 * Val(FillNa(p.score, 0)),
      late_factor |-> NaN,
      slip_day |-> NaN,
      others |-> <<>>] : p \in sheet}

\* self.gradebook.merge(self.lateness[['Email', 'late_factor']], on='Email')
MergeLateFactor(book, late, columns, policy) ==
    {[p[1] EXCEPT !.late_factor = <<LateFactor(p[2], columns, policy)>>] :
        p \in {q \in book \X late : q[1].email = q[2].Email}}

\* self.gradebook.merge(self.lateness[['Email', 'slip_day']], on='Email')
MergeSlipDay(book, late) ==
    {[p[1] EXCEPT !.slip_day = <<SlipDay(p[2])>>] :
        p \in {q \in book \X late : q[1].email = q[2].Email}}

\* the lateness branch of convert_raw
WithLateness(book, policy_name, policy, late) ==
    IF policy_name = <<Str_penalty>>
    THEN IF policy # NaN
         THEN MergeLateFactor(book, NumericRows(late.rows), late.columns, Val(policy))
         ELSE {[r EXCEPT !.late_factor = <<100>>] : r \in book}
    ELSE IF policy_name = <<Str_slip_day>>
    THEN MergeSlipDay(book, NumericRows(late.rows))
    ELSE book

\* self.gradebook.merge(sec[['Email', name]], on='Email') of one section
MergeSection(book, sec) ==
    {[p[1] EXCEPT !.others =
           [n \in DOMAIN p[1].others \cup {sec.name} |->
               IF n = sec.name THEN Val(FillNa(p[2].score, 0))
               ELSE p[1].others[n]]] :
        p \in {q \in book \X sec.rows : q[1].email = q[2].Email}}

RECURSIVE WithSections(_, _)
\* for name, sec in self.other_sections.items(): merge
WithSections(book, secs) ==
    IF secs = <<>> THEN book
    ELSE WithSections(MergeSection(book, Head(secs)), Tail(secs))

\* Gradescope.convert_raw: .str of an integer column raises AttributeError,
\* self.gradebook is then the primary sheet as read
GradescopeConvertRaw ==
    /\ pc = "gs_convert_raw"
    /\ IF ReadAsText(lateness.rows)
       THEN /\ gradebook' =
                  WithSections(
                      WithLateness(PrimaryFrame(gsheet, email_records),
                                   lateness_policy, penalty_policy, lateness),
                      other_sections)
            /\ pc' = "gs_compute_grade"
            /\ err' = err
       ELSE /\ gradebook' = gsheet
            /\ err' = "AttributeError"
            /\ pc' = "raised"
    /\ UNCHANGED <<students, staff, email_records, payload, printed,
                   mismatches>>
    /\ UNCHANGED <<zyVars, gsVars>>

----------------------------------------------------------------------------
(* Gradescope.compute_grade and Gradescope.create_gradebook *)

\* the sum of the other-section columns of a row
OthersSum(r) == SumOver(DOMAIN r.others, r.others)

\* faulty variant: the other sections are added before the factor is applied
FinalGradeScaledSum(r, policy_name) ==
    IF policy_name = <<Str_penalty>>
    THEN (r.assignment_score + OthersSum(r)) * Val(r.late_factor)
    ELSE r.grade + 100 * OthersSum(r)

\* the assignment column of a row after compute_grade
FinalGrade(r, policy_name) ==
    (IF policy_name = <<Str_penalty>> THEN (r.grade * Val(r.late_factor)) \div 100
     ELSE r.grade)
    + 100 * OthersSum(r)

\* Gradescope.compute_grade
GradescopeComputeGrade ==
    /\ pc = "gs_compute_grade"
    /\ gradebook' =
          {[r EXCEPT !.grade = FinalGrade(r, lateness_policy)] : r \in gradebook}
    /\ pc' = "gs_merge"
    /\ UNCHANGED <<students, staff, email_records, err, payload, printed,
                   mismatches>>
    /\ UNCHANGED <<zyVars, gsVars>>

\* one row of students.merge(gradebook, on='email', how='outer') with the
\* assignment column filled
GsMergedRow(e, s, g) ==
    [email |-> e,
     name |-> IF s = NaN THEN NaN ELSE <<Val(s).name>>,
     id |-> IF s = NaN THEN NaN ELSE Val(s).id,
     assignment_score |-> IF g = NaN THEN NaN ELSE <<Val(g).assignment_score>>,
     late_factor |-> IF g = NaN THEN NaN ELSE Val(g).late_factor,
     slip_day |-> IF g = NaN THEN NaN ELSE Val(g).slip_day,
     others |-> IF g = NaN THEN NaN ELSE <<Val(g).others>>,
     grade |-> IF g = NaN THEN 0 ELSE Val(g).grade]

\* students.merge(gradebook, on='email', how='outer') and fillna(0) of the
\* assignment column
GsOuterMerge(roster, scores) ==
    {GsMergedRow(s.email, <<s>>, <<g>>) :
         <<s, g>> \in {p \in roster \X scores : p[1].email = p[2].email}}
    \cup {GsMergedRow(s.email, <<s>>, NaN) :
              s \in {t \in roster : \A g \in scores : g.email # t.email}}
    \cup {GsMergedRow(g.email, NaN, <<g>>) :
              g \in {h \in scores : \A s \in roster : s.email # h.email}}

\* Gradescope.create_gradebook after convert_raw and compute_grade
GradescopeCreateGradebook ==
    /\ pc = "gs_merge"
    /\ gradebook' = GsOuterMerge(students, gradebook)
    /\ pc' = "gs_enter_grades"
    /\ UNCHANGED <<students, staff, email_records, err, payload, printed,
                   mismatches>>
    /\ UNCHANGED <<zyVars, gsVars>>

----------------------------------------------------------------------------
(* Gradescope.enter_grades, get_slip_day_assignment and process_slip_day *)

\* self.submit_grade(assignment, df, grade_col, ...): the bulk update of the
\* assignment's grades with df[grade_col]; a failed job posts nothing and
\* is reported
SubmitGrade(grades, updates, ok) ==
    IF ok
    THEN [i \in DOMAIN grades \cup DOMAIN updates |->
             IF i \in DOMAIN updates THEN <<updates[i]>> ELSE grades[i]]
    ELSE grades

\* what a run prints of the job logged as log: nothing unless it failed
Report(log, ok) == IF ok THEN {} ELSE {log}

\* .fillna(0) of one row of students_update
FilledRow(r, names) ==
    [r EXCEPT !.assignment_score = FillNa(@, 0),
              !.late_factor = FillNa(@, 0),
              !.slip_day = FillNa(@, 0),
              !.others = FillNa(@, [n \in names |-> 0])]

\* self.students_update
GsStudentsUpdate(book, stf, names) ==
    {FilledRow(r, names) : r \in StudentsUpdate(book, stf)}

\* the names of the other sections
SectionNames(secs) == {secs[k].name : k \in 1..Len(secs)}

\* the submissions of an assignment nobody has been graded in
NoGrades == [i \in {Val(st.id) : st \in {t \in students : t.id # NaN}} |-> NaN]

\* Gradescope.enter_grades up to the call of submit_grade: the assignment
\* is looked up and created when it is not there, strptime(None, ...)
\* raising TypeError while the argument of create_assignment is built
GradescopeEnterGrades ==
    /\ pc = "gs_enter_grades"
    /\ printed' = printed \cup {"Processing"}
    /\ IF ~canvas.main_exists /\ due_time = NaN
       THEN /\ err' = "TypeError"
            /\ pc' = "raised"
            /\ UNCHANGED <<students_update, payload, canvas>>
       ELSE /\ canvas' = [canvas EXCEPT !.main_exists = TRUE]
            /\ students_update' =
                  GsStudentsUpdate(gradebook, staff, SectionNames(other_sections))
            /\ payload' = <<GradeUpdates(students_update')>>
            /\ pc' = "gs_submit_main"
            /\ err' = err
    /\ UNCHANGED <<students, staff, email_records, gradebook, mismatches>>
    /\ UNCHANGED <<zyVars, gsheet, lateness, lateness_policy, penalty_policy,
                   other_sections, batch, due_time>>

\* Gradescope.enter_grades from the end of submit_grade's wait: the job
\* has ended, the mismatches are returned
MainGradesSubmitted ==
    /\ pc = "gs_submit_main"
    /\ \E ok \in BOOLEAN :
          /\ canvas' = [canvas EXCEPT !.main = SubmitGrade(@, Val(payload), ok)]
          /\ printed' = printed \cup Report("Main Assignment failed", ok)
    /\ mismatches' = <<Mismatches(gradebook)>>
    /\ pc' = "gs_returned"
    /\ UNCHANGED <<students, staff, email_records, gradebook, err, payload>>
    /\ UNCHANGED <<zyVars, gsheet, lateness, lateness_policy, penalty_policy,
                   other_sections, students_update, batch, due_time>>

\* the df of get_slip_day_assignment's submit_grade: 0 days used for the
\* students of the update
InitialSlipDays(upd) == [i \in {Val(r.id) : r \in upd} |-> 0]

\* last_grade: the posted grades that are not None
LastGrade(slip) == [i \in {j \in DOMAIN slip : slip[j] # NaN} |-> Val(slip[i])]

\* faulty variant: the new usage replaces the posted total
SlipDayUpdatesOverwrite(upd, last) ==
    LET used == {r \in upd : Val(r.slip_day) > 0}
    IN  [i \in {Val(r.id) : r \in used} |->
            Val((CHOOSE r \in used : Val(r.id) = i).slip_day)]

\* slip_day_updates['posted_grade']: usage + last grade of the students
\* with slip_day > 0, the last grade of a student without one being 0
SlipDayUpdates(upd, last) ==
    LET used == {r \in upd : Val(r.slip_day) > 0}
    IN  [i \in {Val(r.id) : r \in used} |->
            Val((CHOOSE r \in used : Val(r.id) = i).slip_day)
            + (IF i \in DOMAIN last THEN last[i] ELSE 0)]

\* process_slip_day from last_grade to the call of submit_grade;
\* students_update has no slip_day column (KeyError) unless the policy is
\* 'slip_day'
SlipDayUpdateCall(slip) ==
    IF lateness_policy = <<Str_slip_day>>
    THEN /\ payload' = <<SlipDayUpdates(students_update, LastGrade(slip))>>
         /\ pc' = "gs_submit_slip"
         /\ err' = err
    ELSE /\ err' = "KeyError"
         /\ pc' = "raised"
         /\ payload' = payload

\* Gradescope.process_slip_day up to its first call of submit_grade: in
\* get_slip_day_assignment when 'Slip Day Usage' has to be created, else
\* with the slip-day updates
ProcessSlipDay ==
    /\ pc = "gs_returned"
    /\ printed' = printed \cup {"Updating Slip Day Usage"}
    /\ IF canvas.slip_exists
       THEN /\ SlipDayUpdateCall(canvas.slip)
            /\ canvas' = canvas
       ELSE /\ canvas' = [canvas EXCEPT !.slip_exists = TRUE, !.slip = NoGrades]
            /\ payload' = <<InitialSlipDays(students_update)>>
            /\ pc' = "gs_submit_init"
            /\ err' = err
    /\ UNCHANGED <<students, staff, email_records, gradebook, mismatches>>
    /\ UNCHANGED <<zyVars, gsheet, lateness, lateness_policy, penalty_policy,
                   other_sections, students_update, batch, due_time>>

\* the end of the wait of get_slip_day_assignment's submit_grade, and
\* process_slip_day from there to its own call of submit_grade
SlipDayInitialized ==
    /\ pc = "gs_submit_init"
    /\ \E ok \in BOOLEAN :
          /\ canvas' = [canvas EXCEPT !.slip = SubmitGrade(@, Val(payload), ok)]
          /\ printed' = printed \cup Report("Initialize Slip Day failed", ok)
    /\ SlipDayUpdateCall(canvas'.slip)
    /\ UNCHANGED <<students, staff, email_records, gradebook, mismatches>>
    /\ UNCHANGED <<zyVars, gsheet, lateness, lateness_policy, penalty_policy,
                   other_sections, students_update, batch, due_time>>

\* the end of the wait of process_slip_day's submit_grade
SlipDaySubmitted ==
    /\ pc = "gs_submit_slip"
    /\ \E ok \in BOOLEAN :
          /\ canvas' = [canvas EXCEPT !.slip = SubmitGrade(@, Val(payload), ok)]
          /\ printed' = printed \cup Report("Slip Day Assignment failed", ok)
    /\ pc' = "gs_done"
    /\ UNCHANGED <<students, staff, email_records, gradebook, mismatches, err,
                   payload>>
    /\ UNCHANGED <<zyVars, gsheet, lateness, lateness_policy, penalty_policy,
                   other_sections, students_update, batch, due_time>>

----------------------------------------------------------------------------
(* Inputs of the Gradescope runs *)

\* the roster of the Gradescope runs: "n" has no Canvas id
GsRoster ==
    {Student("a", <<1>>), Student("b", <<2>>), Student("n", NaN), Student("s", <<3>>)}

\* one row of indicator columns of the lateness sheet
Ind(n, d, u) ==
    (Col_NoLateness :> n) @@ (Col_1DayLate :> d) @@ (Col_SlipDayUsed :> u)

\* on time, one day late, slip day used, nothing marked
Patterns == {Ind(1, 0, 0), Ind(0, 1, 0), Ind(0, 0, 1), Ind(0, 0, 0)}

\* the order of the indicator columns in the lateness sheet
ColumnOrders ==
    {<<Col_NoLateness, Col_1DayLate, Col_SlipDayUsed>>,
     <<Col_1DayLate, Col_SlipDayUsed, Col_NoLateness>>}

\* {'no lateness': 1.0, '1 day late': 0.8}
Policy_Full ==
    <<[category |-> Cat_NoLateness, factor |-> 100],
      [category |-> Cat_1DayLate, factor |-> 80]>>
\* {'1 day late': 0.8}
Policy_LateOnly == <<[category |-> Cat_1DayLate, factor |-> 80]>>

\* kwargs['penalty_policy']
PenaltyPolicies == {NaN, <<Policy_Full>>, <<Policy_LateOnly>>}

\* a row of the lateness sheet
LateRow(e, sid, ind) == [Email |-> e, sid |-> sid, ind |-> ind]

\* the lateness rows a student can have: none, a graded submission with
\* any pattern, or a row whose submission id is not numeric
LateRowsOf(e, patterns) ==
    {{}} \cup {{LateRow(e, <<"7">>, i)} : i \in patterns}
         \cup {{LateRow(e, <<"n", "a">>, Ind(0, 1, 0))}}

\* the rows of a score sheet a student can have
ScoreRowsOf(e, cells) == {{[Email |-> e, score |-> c]} : c \in cells}

\* the emails typed in the primary sheet besides "a"
SecondEmails == {"b_typo", "x"}

\* the sheets of one run, the second student being e2 ("" for none)
PrimarySheets(e2) ==
    {ra \cup rb :
        <<ra, rb>> \in ScoreRowsOf("a", {NaN, <<50>>, <<90>>})
                       \X (IF e2 = "" THEN {{}} ELSE ScoreRowsOf(e2, {<<90>>}))}

\* the row of a student without a graded submission
TextIdRow == LateRow("w", <<"n", "a">>, Ind(0, 0, 0))

LatenessRows(e2, patterns) ==
    {ra \cup rb \cup rw :
        <<ra, rb, rw>> \in LateRowsOf("a", patterns)
                           \X (IF e2 = "" THEN {{}}
                               ELSE {{}, {LateRow(e2, <<"8">>, Ind(0, 1, 0))}})
                           \X {{}, {TextIdRow}}}

ExtraRows(e2) ==
    {ra \cup rb :
        <<ra, rb>> \in ({{}} \cup ScoreRowsOf("a", {NaN, <<5>>}))
                       \X (IF e2 = "" THEN {{}} ELSE {{}} \cup ScoreRowsOf(e2, {<<5>>}))}

BonusRows(e2) ==
    {[Email |-> "a", score |-> <<3>>]}
        \cup (IF e2 = "" THEN {} ELSE {[Email |-> e2, score |-> <<3>>]})

\* self.other_sections: none, 'extra', or 'extra' and 'bonus'
OtherSections(e2) ==
    {<<>>}
    \cup {<<[name |-> "extra", rows |-> x]>> : x \in ExtraRows(e2)}
    \cup {<<[name |-> "extra", rows |-> x], [name |-> "bonus", rows |-> BonusRows(e2)]>>
              : x \in ExtraRows(e2)}

\* the part of the state no Gradescope run uses
InitGsRun ==
    /\ pc = "gs_convert_raw"
    /\ config = <<>>
    /\ df = [columns |-> {}, rows |-> {}]
    /\ total_score = 0
    /\ progress = NaN
    /\ students = GsRoster
    /\ staff = Staff
    /\ email_records = EmailRecords
    /\ gradebook = {}
    /\ err = ""
    /\ payload = NaN
    /\ printed = {}
    /\ mismatches = NaN
    /\ students_update = {}
    /\ batch = 1

\* '2020-10-30 23:59'
Due_Oct30 ==
    <<"2", "0", "2", "0", "-", "1", "0", "-", "3", "0", " ", "2", "3", ":", "5", "9">>

\* due_time of the constructor: None (the default) or a text in the format
\* '%Y-%m-%d %H:%M'
DueTimes == {NaN, <<Due_Oct30>>}

\* the files of one Gradescope assignment and its course
InitGsFiles ==
    /\ \E e2 \in {""} \cup SecondEmails :
          /\ gsheet \in PrimarySheets(e2)
          /\ \E order \in ColumnOrders, rows \in LatenessRows(e2, Patterns) :
                 lateness = [columns |-> order, rows |-> rows]
          /\ other_sections \in OtherSections(e2)
    /\ due_time \in DueTimes
    /\ \E exists \in BOOLEAN :
          canvas = [main_exists |-> exists, main |-> NoGrades,
                    slip_exists |-> FALSE, slip |-> NoGrades]

\* one Gradescope assignment under any policy, the policy spelled as the
\* methods compare it
InitGs ==
    /\ InitGsRun
    /\ InitGsFiles
    /\ \/ lateness_policy = NaN /\ penalty_policy = NaN
       \/ lateness_policy = <<Str_penalty>> /\ penalty_policy \in PenaltyPolicies
       \/ lateness_policy = <<Str_slip_day>> /\ penalty_policy = NaN

NextGs ==
    \/ GradescopeConvertRaw
    \/ GradescopeComputeGrade
    \/ GradescopeCreateGradebook
    \/ GradescopeEnterGrades
    \/ MainGradesSubmitted
    \/ ProcessSlipDay
    \/ SlipDayInitialized
    \/ SlipDaySubmitted

SpecGs == InitGs /\ [][NextGs]_vars

\* 'Penalty'
Str_Penalty == <<"P", "e", "n", "a", "l", "t", "y">>
\* 'SLIP_DAY'
Str_SLIP_DAY == <<"S", "L", "I", "P", "_", "D", "A", "Y">>
\* 'late'
Str_late == <<"l", "a", "t", "e">>

\* values of lateness_policy handed to the constructor
LatenessPolicies ==
    {NaN, <<Str_penalty>>, <<Str_slip_day>>, <<Str_Penalty>>, <<Str_SLIP_DAY>>,
     <<Str_late>>}

\* one Gradescope assignment whose constructor accepted lateness_policy
InitPolicy ==
    /\ InitGsRun
    /\ InitGsFiles
    /\ lateness_policy \in {p \in LatenessPolicies : PolicyAccepted(p)}
    /\ penalty_policy \in
          IF lateness_policy # NaN /\ Lower(Val(lateness_policy)) = Str_penalty
          THEN PenaltyPolicies ELSE {NaN}

SpecPolicy == InitPolicy /\ [][NextGs]_vars

----------------------------------------------------------------------------
(* Assignments run one after another under the slip-day policy *)

\* most Gradescope assignments run in turn
MaxBatches == 2

\* on time, slip day used
SlipPatterns == {Ind(1, 0, 0), Ind(0, 0, 1)}

\* the lateness rows of an assignment: one graded submission for each of
\* some of the students of the primary sheet, with or without the row of
\* a student who has none
SlipLatenessRows(sheet) ==
    {{LateRow(e, <<"7">>, f[e]) : e \in S} \cup rw :
        <<S, f, rw>> \in (SUBSET {q.Email : q \in sheet})
                             \X [{q.Email : q \in sheet} -> SlipPatterns]
                             \X {{}, {TextIdRow}}}

\* the totals 'Slip Day Usage' can hold before the first run
PostedBefore == [DOMAIN NoGrades -> {NaN, <<0>>, <<1>>}]

InitSlip ==
    /\ InitGsRun
    /\ \E e2 \in {"", "b", "x"} :
          gsheet = {[Email |-> "a", score |-> <<90>>]}
                       \cup (IF e2 = "" THEN {} ELSE {[Email |-> e2, score |-> <<90>>]})
    /\ \E rows \in SlipLatenessRows(gsheet) :
          lateness = [columns |-> <<Col_NoLateness, Col_1DayLate, Col_SlipDayUsed>>,
                      rows |-> rows]
    /\ other_sections = <<>>
    /\ lateness_policy = <<Str_slip_day>>
    /\ penalty_policy = NaN
    /\ due_time = <<Due_Oct30>>
    /\ \/ canvas = [main_exists |-> FALSE, main |-> NoGrades,
                     slip_exists |-> FALSE, slip |-> NoGrades]
       \/ \E before \in PostedBefore :
              canvas = [main_exists |-> FALSE, main |-> NoGrades,
                        slip_exists |-> TRUE, slip |-> before]

\* the next assignment: a new Gradescope object on the same course, with
\* the lateness sheet of that assignment
NewBatch ==
    /\ pc = "gs_done"
    /\ batch < MaxBatches
    /\ batch' = batch + 1
    /\ pc' = "gs_convert_raw"
    /\ \E rows \in SlipLatenessRows(gsheet) :
          lateness' = [lateness EXCEPT !.rows = rows]
    /\ gradebook' = {}
    /\ students_update' = {}
    /\ payload' = NaN
    /\ mismatches' = NaN
    /\ printed' = {}
    /\ canvas' = [canvas EXCEPT !.main_exists = FALSE, !.main = NoGrades]
    /\ UNCHANGED <<students, staff, email_records, err, gsheet, lateness_policy,
                   penalty_policy, other_sections, due_time>>
    /\ UNCHANGED zyVars

NextSlip ==
    \/ GradescopeConvertRaw
    \/ GradescopeComputeGrade
    \/ GradescopeCreateGradebook
    \/ GradescopeEnterGrades
    \/ MainGradesSubmitted
    \/ ProcessSlipDay
    \/ SlipDayInitialized
    \/ SlipDaySubmitted
    \/ NewBatch

SpecSlip == InitSlip /\ [][NextSlip]_vars

----------------------------------------------------------------------------
(* Properties of the Zybook runs *)

\* compute_grade has run on the rows of self.gradebook
Graded == pc = "merge"

\* the percentage of a graded row is at least th, on integers
PctAtLeast(r, th) == total_score # 0 /\ 100 * r.total_score >= th * total_score

\* the cell of the bucket runs' only column typed by the student e
TypedValue(e) ==
    LET row == CHOOSE r \in df.rows : r.email = e
    IN  Val(FillNa(row.vals[H_1_1_P_100], 0))

\* C1: compute_grade maps every percentage to a bucket 0..5 by the table
\* >=93 -> 5, >=80 -> 4, >=60 -> 3, >=40 -> 2, >=20 -> 1, else 0; the map
\* is monotonic in the percentage and the upper bucket wins at a boundary.
C1_BucketTable ==
    Graded =>
      /\ \A r \in gradebook :
            /\ r.grade \in 0..5
            /\ r.grade = 5 <=> PctAtLeast(r, 93)
            /\ r.grade >= 4 <=> PctAtLeast(r, 80)
            /\ r.grade >= 3 <=> PctAtLeast(r, 60)
            /\ r.grade >= 2 <=> PctAtLeast(r, 40)
            /\ r.grade >= 1 <=> PctAtLeast(r, 20)
            /\ TypedValue(r.typed_email) = 93 => r.grade = 5
            /\ TypedValue(r.typed_email) = 92 => r.grade = 4
            /\ TypedValue(r.typed_email) = 0 => r.grade = 0
            /\ TypedValue(r.typed_email) = 100 => r.grade = 5
      /\ \A r1, r2 \in gradebook :
            TypedValue(r1.typed_email) <= TypedValue(r2.typed_email)
                => r1.grade <= r2.grade

\* two students graded on either side of the boundary 93
C1_Witness ==
    /\ Graded
    /\ \E r1, r2 \in gradebook :
          /\ TypedValue(r1.typed_email) = 92 /\ r1.grade = 4
          /\ TypedValue(r2.typed_email) = 93 /\ r2.grade = 5
          /\ r2.percentage = <<[num |-> 9300, den |-> 100]>>

\* a header that is exactly '<sec> - <act> (<digits>)' for a declared pair
DeclaredAs(h, alt) ==
    LET p == AltHead(alt)
    IN  /\ Len(h) >= Len(p) + 2
        /\ SubSeq(h, 1, Len(p)) = p
        /\ h[Len(h)] = ")"
        /\ \A k \in (Len(p) + 1)..(Len(h) - 1) : h[k] \in Digits

Declared(h) == \E a \in 1..Len(config) : DeclaredAs(h, config[a])

\* the weight written in a declared header
DeclaredWeight(h) ==
    LET a == CHOOSE b \in 1..Len(config) : DeclaredAs(h, config[b])
    IN  ParseInt(SubSeq(h, Len(AltHead(config[a])) + 1, Len(h) - 1))

DeclaredColumns == {h \in df.columns : Declared(h)}

\* C2: convert_raw sets the total possible score to the sum of the weights
\* of exactly the rubric-declared columns present in the sheet, and scores
\* exactly those columns; other headers count for nothing.
C2_TotalIsDeclaredWeights ==
    pc # "convert_raw" =>
      /\ total_score =
            SumOver(DeclaredColumns, [h \in DeclaredColumns |-> DeclaredWeight(h)])
      /\ pc = "compute_grade" =>
            \A r \in gradebook : DOMAIN r.cols = DeclaredColumns

\* the cells typed by the student of a row of self.gradebook
TypedRow(e) == (CHOOSE r \in df.rows : r.email = e).vals

\* value * weight of one scored column, a missing value counting 0
Weighted(e, c) ==
    (IF TypedRow(e)[c] = NaN THEN 0 ELSE Val(TypedRow(e)[c])) * DeclaredWeight(c)

\* C3: the raw aggregate score of a row is the sum over the scored columns
\* of round(value * weight / 100), a missing value counting 0, each
\* column's contribution rounded before the sum.
C3_RoundThenSum ==
    Graded =>
      \A r \in gradebook :
          r.total_score =
              SumOver(DOMAIN r.cols,
                      [c \in DOMAIN r.cols |->
                          RoundHalfEven(Weighted(r.typed_email, c), 100)])

\* a row of two scored columns whose score differs from rounding the
\* summed unrounded contributions
C3_Witness ==
    /\ Graded
    /\ \E r \in gradebook :
          /\ Cardinality(DOMAIN r.cols) = 2
          /\ r.total_score #
                RoundHalfEven(
                    SumOver(DOMAIN r.cols,
                            [c \in DOMAIN r.cols |-> Weighted(r.typed_email, c)]),
                    100)

\* C4: when no column matches the rubric (total possible 0) computing the
\* scores ends in an error and no student gets a score.
C4_ZeroTotalIsAnError ==
    (total_score = 0 /\ pc \notin {"convert_raw", "compute_grade"})
        => (err # "" /\ gradebook = {})

\* the canonical emails of the score rows of the sheet
ScoredEmails == {Canonical(email_records, r.email) : r \in df.rows}

RosterEmails == {s.email : s \in students}

\* create_gradebook has merged the scores with the roster
Merged == pc = "enter_grades"

\* C5: create_gradebook is a full outer join of the scores with the roster
\* on canonical email: every roster identity appears (score 0 when it has no
\* computed score), every scored identity outside the roster appears (with
\* absent roster fields) with the score computed for it, and no identity of
\* either side is lost.
C5_FullOuterJoin ==
    [][CreateGradebook =>
        /\ {r.email : r \in gradebook'} = RosterEmails \cup ScoredEmails
        /\ \A s \in students :
              \E r \in gradebook' :
                  /\ r.email = s.email /\ r.id = s.id /\ r.name = <<s.name>>
                  /\ s.email \notin ScoredEmails =>
                        (r.grade = 0 /\ r.typed_email = NaN)
        /\ \A g \in gradebook :
              \E r \in gradebook' :
                  /\ r.email = Canonical(email_records, g.typed_email)
                  /\ r.typed_email = <<g.typed_email>>
                  /\ r.grade = g.grade
                  /\ r.total_score = <<g.total_score>>
                  /\ r.email \notin RosterEmails => (r.id = NaN /\ r.name = NaN)
      ]_vars

\* a roster student without a score next to a scored stranger with a grade
C5_Witness ==
    /\ Merged
    /\ \E r1, r2 \in gradebook :
          /\ r1.email \in RosterEmails \ ScoredEmails /\ r1.grade = 0
          /\ r2.email \in ScoredEmails \ RosterEmails /\ r2.grade = 5
          /\ r2.id = NaN

\* the grades pl handed to the remote gradebook are those of the non-staff
\* rows of book with an id, and of no other row
PayloadSplit(book, pl) ==
    /\ \A r \in book :
          /\ (r.id # NaN /\ r.email \notin staff) =>
                (Val(r.id) \in DOMAIN pl /\ pl[Val(r.id)] = r.grade)
    /\ \A i \in DOMAIN pl : \E r \in book : r.id = <<i>> /\ r.email \notin staff

\* the mismatches mm returned are the rows of book without an id
MismatchSplit(book, mm) ==
    /\ \A r \in book : r.id = NaN => (mm # NaN /\ r \in Val(mm))
    /\ mm # NaN => \A r \in Val(mm) : r \in book /\ r.id = NaN

\* C6: the grades sent and the mismatches returned by enter_grades split
\* the merged rows by the remote id.  Every enter_grades, of Gradebook and
\* of Gradescope, that hands grades to the remote gradebook hands over the
\* grades of the non-staff rows with an id and of no row without one, and
\* when the bulk job it started has ended, completed or failed, it returns
\* the rows without id as the mismatches.
C6_PayloadAndMismatches ==
    [][/\ (EnterGrades /\ payload' # NaN) =>
              PayloadSplit(gradebook, Val(payload'))
       /\ (GradescopeEnterGrades /\ pc' = "gs_submit_main") =>
              PayloadSplit(gradebook, Val(payload'))
       /\ (TrackProgress /\ progress.workflow_state \in {"completed", "failed"}) =>
              MismatchSplit(gradebook, mismatches')
       /\ MainGradesSubmitted => MismatchSplit(gradebook, mismatches')
      ]_vars

\* C11: track_progress ends with an outcome.  A test of its loop that finds
\* the job at completion 100 returns with 'Progress Completed'; a test that
\* finds the job failed short of 100 reports the failure and leaves the
\* loop as well, without 'Progress Completed' being reported by that step.
C11_TrackProgressEnds ==
    [][(TrackProgress /\ (progress.completion = 100
                          \/ progress.workflow_state = "failed")) =>
          /\ pc' # "track_progress"
          /\ progress.completion = 100 => "Progress Completed" \in printed'
          /\ progress.completion # 100 =>
                /\ "Progress Failed, Restart Workflow" \in printed'
                /\ "Progress Completed" \notin printed']_vars

----------------------------------------------------------------------------
(* Properties of the Gradescope runs *)

\* the total posted for the Canvas id i, 0 when nothing is posted
PostedTotal(cv, i) ==
    IF cv.slip_exists /\ cv.slip[i] # NaN THEN Val(cv.slip[i]) ELSE 0

\* C7: each process_slip_day whose update is applied leaves every published
\* student's posted 'Slip Day Usage' total equal to the total posted before
\* plus the batch's slip-day flag; a student whose flag is 0 is not in the
\* update payload and keeps the previous total.
C7_SlipDayAccumulates ==
    [][(SlipDaySubmitted /\ "Slip Day Assignment failed" \notin printed') =>
        \A r \in students_update :
            LET i == Val(r.id)
                flag == Val(r.slip_day)
            IN  /\ flag \in {0, 1}
                /\ PostedTotal(canvas', i) = PostedTotal(canvas, i) + flag
                /\ flag = 0 => i \notin DOMAIN Val(payload')
                /\ flag = 1 =>
                      (i \in DOMAIN Val(payload')
                       /\ Val(payload')[i] = PostedTotal(canvas, i) + 1)
      ]_vars

\* student "a" (id 1) started from a posted total of 1, the largest before
\* the first run, and used a slip day in each of two assignments
C7_Witness ==
    /\ pc = "gs_done"
    /\ batch = 2
    /\ canvas.slip[1] = <<3>>
    /\ \E r \in students_update : r.id = <<1>> /\ r.slip_day = <<1>>
    /\ \E r \in students_update : r.id = <<2>> /\ r.slip_day = <<0>>

\* convert_raw has built the rows of self.gradebook
Converted == pc = "gs_compute_grade"

\* the lateness row joined to a row of self.gradebook
LatenessRowOf(r) ==
    CHOOSE l \in NumericRows(lateness.rows) : l.Email = r.email

\* C8: under the penalty policy a row of the lateness sheet with no
\* indicator column set gets late_factor 1.0 whatever the policy's order and
\* factors, and without a penalty_policy every row gets 1.0.
C8_UnmarkedRowKeepsFullCredit ==
    (Converted /\ lateness_policy = <<Str_penalty>>) =>
        \A r \in gradebook :
            /\ penalty_policy = NaN => r.late_factor = <<100>>
            /\ (penalty_policy # NaN
                /\ \A k \in 1..Len(lateness.columns) :
                       LatenessRowOf(r).ind[lateness.columns[k]] = 0)
                  => r.late_factor = <<100>>

\* compute_grade has run on the rows of self.gradebook
GsGraded == pc = "gs_merge"

\* the score typed in a sheet for an email, a missing score counting 0
TypedScore(rows, e) ==
    Val(FillNa((CHOOSE p \in rows : p.Email = e).score, 0))

\* the primary score of a row of self.gradebook
PrimaryScore(r) ==
    Val(FillNa((CHOOSE p \in gsheet : Canonical(email_records, p.Email) = r.email).score, 0))

\* the sum of the scores of a student in the other sections
TypedOthers(e) ==
    SumOver(1..Len(other_sections),
            [k \in 1..Len(other_sections) |-> TypedScore(other_sections[k].rows, e)])

\* C9: the final assignment score of every row is assignment_score *
\* late_factor + the row's other-section scores under the penalty policy
\* and assignment_score + the other-section scores otherwise: the factor
\* never scales an other-section score, the slip-day flag scales nothing.
C9_FinalScore ==
    GsGraded =>
        \A r \in gradebook :
            /\ r.assignment_score = PrimaryScore(r)
            /\ r.grade =
                  (IF lateness_policy = <<Str_penalty>>
                   THEN r.assignment_score * Val(r.late_factor)
                   ELSE 100 * r.assignment_score)
                  + 100 * TypedOthers(r.email)

\* a one-day-late 90 with 5 + 3 points of other sections: 0.8 * 90 + 8
C9_Witness ==
    /\ GsGraded
    /\ lateness_policy = <<Str_penalty>>
    /\ \E r \in gradebook :
          /\ r.assignment_score = 90
          /\ r.late_factor = <<80>>
          /\ r.others = [n \in {"extra", "bonus"} |-> IF n = "extra" THEN 5 ELSE 3]
          /\ r.grade = 8000

\* C10: a student of the primary sheet who is absent from an other-section
\* sheet is never silently dropped: after create_gradebook the row of a
\* student who earned a primary score still carries it, or the run ended in
\* an error.
C10_PrimaryScoreKept ==
    (pc = "gs_enter_grades" /\ lateness_policy = NaN) =>
        \/ err # ""
        \/ \A p \in {q \in gsheet : Val(FillNa(q.score, 0)) > 0} :
              \E r \in gradebook :
                  /\ r.email = Canonical(email_records, p.Email)
                  /\ r.assignment_score = p.score
                  /\ r.grade >= 100 * Val(p.score)

\* lateness_policy.lower(), the policy the constructor accepted
PolicyMeant == Lower(Val(lateness_policy))

\* C12: every lateness_policy other than None that the constructor accepts
\* has exactly one lateness adjustment applied: for a value that lower-cases
\* to 'penalty' every row leaving convert_raw carries a late_factor and no
\* slip_day, and compute_grade multiplies the score by it; for a value that
\* lower-cases to 'slip_day' every row carries a slip_day flag and no
\* late_factor.  No accepted value leaves the rows without either.
C12_AcceptedPolicyIsApplied ==
    (lateness_policy # NaN /\ PolicyAccepted(lateness_policy)
         /\ pc \in {"gs_compute_grade", "gs_merge"}) =>
      \A r \in gradebook :
         /\ (r.late_factor # NaN) # (r.slip_day # NaN)
         /\ PolicyMeant = Str_penalty =>
               /\ r.late_factor # NaN
               /\ pc = "gs_merge" =>
                     r.grade = r.assignment_score * Val(r.late_factor)
                                   + 100 * OthersSum(r)
         /\ PolicyMeant = Str_slip_day => r.slip_day # NaN

====
